---------------------------- MODULE Spec2Model ----------------------------
(***************************************************************************)
(* A model of the finmod financial-modelling engines and of the HTTP       *)
(* handlers that call them.                                                *)
(*                                                                         *)
(* Number representation.  The program computes in IEEE doubles.  Here a   *)
(* money amount is an integer number of dollars and a rate is an integer   *)
(* number of thousandths (0.05 is 50), so that x * rate is                 *)
(* (x * rate) \div 1000 and x * (rate / 12) is (x * rate) \div 12000.      *)
(* Products are rounded down to the dollar; Epsilon bounds what that       *)
(* rounding can add up to over the horizon.  The two non-finite doubles    *)
(* the engines can produce, NaN and +Infinity, are the two reserved        *)
(* values NaN and Inf, and every arithmetic helper treats them the way     *)
(* JavaScript does.  Array index i of the program is index i + 1 of the    *)
(* sequence that models the array.                                         *)
(***************************************************************************)
EXTENDS Integers, Sequences, FiniteSets, TLC

\* The planning horizon: const periods = 60 (5 years monthly).
Periods == 60

\* Tolerance (dollars) for comparisons the claims state "within epsilon".
Epsilon == 100

\* How far the millisecond clock (Date.now) runs.
MaxClock == 2

\* How many requests the second, concurrent caller makes.
MaxPeerRuns == 1

\* The longest cash flow series a metric function is called on directly.
MaxLen == 3

\* Date.now(): the millisecond clock, which any code of the program can read.
VARIABLE clock

(***************************************************************************)
(* JavaScript numbers                                                      *)
(***************************************************************************)
Inf == (2^30 - 1) + 2^30
NaN == 0 - Inf

IsFinite(x) == x # NaN /\ x # Inf

\* a + b
JsAdd(a, b) ==
  IF a = NaN \/ b = NaN THEN NaN
  ELSE IF a = Inf \/ b = Inf THEN Inf
  ELSE a + b

\* a - b (b is never +Infinity in the engines: only totalPayments can be)
JsSub(a, b) ==
  IF a = NaN \/ b = NaN THEN NaN
  ELSE IF a = Inf THEN Inf
  ELSE a - b

\* a * (num / den) for a rate num/den >= 0
JsScale(a, num, den) ==
  IF a = NaN THEN NaN
  ELSE IF a = Inf THEN (IF num = 0 THEN NaN ELSE Inf)
  ELSE (a * num) \div den

\* a / b for a >= 0: 0/0 is NaN, x/0 is +Infinity
JsDiv(a, b) ==
  IF a = NaN \/ b = NaN THEN NaN
  ELSE IF b = 0 THEN (IF a = 0 THEN NaN ELSE Inf)
  ELSE a \div b

\* Math.min(a, b)
JsMin(a, b) ==
  IF a = NaN \/ b = NaN THEN NaN
  ELSE IF a = Inf THEN b
  ELSE IF b = Inf THEN a
  ELSE IF a <= b THEN a ELSE b

\* Math.max(0, a)
JsMax0(a) ==
  IF a = NaN THEN NaN
  ELSE IF a = Inf THEN Inf
  ELSE IF a >= 0 THEN a ELSE 0

\* a === b on numbers: NaN equals nothing, itself included
JsEq(a, b) == a # NaN /\ b # NaN /\ a = b

\* a <= b on numbers: false when either is NaN
JsLe(a, b) ==
  /\ a # NaN
  /\ b # NaN
  /\ (b = Inf \/ (a # Inf /\ a <= b))

\* |a - b| < eps: false when either is NaN
JsNear(a, b, eps) ==
  /\ IsFinite(a)
  /\ IsFinite(b)
  /\ a - b < eps
  /\ b - a < eps

\* new Array(n).fill(v)
Fill(n, v) == [i \in 1..n |-> v]

\* TRUE.  Operator arguments are passed unevaluated; a loop tests this on the
\* value it carries so that each half of a range is computed before the next
\* half starts, as the program's loop does.
Evaluated(x) == x = x

(***************************************************************************)
(* FinancialModelingEngine: schedules                                      *)
(***************************************************************************)
\* The body of the loop for program index i - 1; acc carries currentBalance.
DepreciationStep(inputs, acc, i) ==
  LET bal == JsAdd(acc.currentBalance, acc.additions[i])
      dep == JsScale(bal, inputs.capex.depreciationRate, 12000)
      end == JsSub(bal, dep)
  IN  [acc EXCEPT !.beginningBalance = Append(@, acc.currentBalance),
                  !.depreciation = Append(@, dep),
                  !.endingBalance = Append(@, end),
                  !.currentBalance = end]

\* for (i = lo - 1; i <= hi - 1; i++), the range halved to keep the
\* evaluation shallow; the iterations run in index order.
RECURSIVE DepreciationLoop(_, _, _, _)
DepreciationLoop(inputs, lo, hi, acc) ==
  IF lo > hi \/ ~Evaluated(acc) THEN acc
  ELSE IF lo = hi THEN DepreciationStep(inputs, acc, lo)
  ELSE DepreciationLoop(inputs, (lo + hi) \div 2 + 1, hi,
                        DepreciationLoop(inputs, lo, (lo + hi) \div 2, acc))

generateDepreciationSchedule(inputs, periods) ==
  LET r == DepreciationLoop(inputs, 1, periods,
             [beginningBalance |-> << >>,
              additions |-> Fill(periods, inputs.capex.annualCapex \div 12),
              depreciation |-> << >>,
              endingBalance |-> << >>,
              currentBalance |-> 0])
  IN  [periods |-> periods,
       beginningBalance |-> r.beginningBalance,
       additions |-> r.additions,
       depreciation |-> r.depreciation,
       endingBalance |-> r.endingBalance]

\* p * (1 + rate/12)^(hi - lo + 1), p scaled by 10^6
RECURSIVE PowLoop(_, _, _, _)
PowLoop(rate, lo, hi, p) ==
  IF lo > hi \/ ~Evaluated(p) THEN p
  ELSE IF lo = hi THEN p + (p * rate) \div 12000
  ELSE PowLoop(rate, (lo + hi) \div 2 + 1, hi, PowLoop(rate, lo, (lo + hi) \div 2, p))

\* Math.pow(1 + rate/12, n), scaled by 10^6
PowMonthly(rate, n) == PowLoop(rate, 1, n, 10^6)

\* initialDebt * (monthlyRate * pow) / (pow - 1)
totalPayments(inputs) ==
  LET pow == PowMonthly(inputs.debtStructure.interestRate,
                        inputs.debtStructure.debtMaturity * 12)
      rpow == (pow * inputs.debtStructure.interestRate) \div 12000
  IN  JsDiv(inputs.debtStructure.initialDebt * rpow, pow - 10^6)

\* One pass of the loop body for period index i (program index i - 1).
DebtPeriod(inputs, payment, prevEnding) ==
  LET beginning == prevEnding
      interest == JsScale(beginning, inputs.debtStructure.interestRate, 12000)
      principal == JsMin(JsSub(payment, interest), beginning)
  IN  [beginning |-> beginning, interest |-> interest,
       principal |-> principal, ending |-> JsSub(beginning, principal)]

DebtStep(inputs, payment, acc, i) ==
  LET p == DebtPeriod(inputs, payment, acc.endingBalance[i - 1])
  IN  [acc EXCEPT !.beginningBalance = Append(@, p.beginning),
                  !.interestPayments = Append(@, p.interest),
                  !.principalPayments = Append(@, p.principal),
                  !.endingBalance = Append(@, p.ending)]

RECURSIVE DebtLoop(_, _, _, _, _)
DebtLoop(inputs, payment, lo, hi, acc) ==
  IF lo > hi \/ ~Evaluated(acc) THEN acc
  ELSE IF lo = hi THEN DebtStep(inputs, payment, acc, lo)
  ELSE DebtLoop(inputs, payment, (lo + hi) \div 2 + 1, hi,
                DebtLoop(inputs, payment, lo, (lo + hi) \div 2, acc))

\* The loop starts at program index 1: period 0 carries the initial debt and
\* no payment.
generateDebtSchedule(inputs, periods) ==
  DebtLoop(inputs, totalPayments(inputs), 2, periods,
    [periods |-> periods,
     beginningBalance |-> << inputs.debtStructure.initialDebt >>,
     newDebt |-> Fill(periods, 0),
     principalPayments |-> << 0 >>,
     interestPayments |-> << 0 >>,
     endingBalance |-> << inputs.debtStructure.initialDebt >>])

generateWorkingCapitalSchedule(inputs, periods) ==
  LET monthlyRevenue == 100000
      monthlyCOGS == (monthlyRevenue * 6) \div 10
      ar == (monthlyRevenue * inputs.workingCapital.daysSalesOutstanding) \div 30
      inv == (monthlyCOGS * inputs.workingCapital.daysInventoryOutstanding) \div 30
      ap == (monthlyCOGS * inputs.workingCapital.daysPayablesOutstanding) \div 30
      nwc == [i \in 1..periods |-> ar + inv - ap]
  IN  [periods |-> periods,
       accountsReceivable |-> Fill(periods, ar),
       inventory |-> Fill(periods, inv),
       accountsPayable |-> Fill(periods, ap),
       netWorkingCapital |-> nwc,
       changeInWorkingCapital |->
         [i \in 1..periods |-> IF i > 1 THEN nwc[i] - nwc[i - 1] ELSE 0]]

(***************************************************************************)
(* FinancialModelingEngine: helper methods                                 *)
(***************************************************************************)
\* inputs.revenueGrowth[Math.min(i, length - 1)]: undefined on an empty list
growthRateAt(inputs, i) ==
  LET n == Len(inputs.revenueGrowth)
  IN  IF n = 0 THEN NaN
      ELSE inputs.revenueGrowth[(IF i - 1 <= n - 1 THEN i - 1 ELSE n - 1) + 1]

RevenueStep(inputs, acc, i) ==
  LET growthRate == growthRateAt(inputs, i)
  IN  [revenue |-> Append(acc.revenue, acc.currentRevenue),
       currentRevenue |->
         IF growthRate = NaN THEN NaN
         ELSE JsAdd(acc.currentRevenue, JsScale(acc.currentRevenue, growthRate, 12000))]

RECURSIVE RevenueLoop(_, _, _, _)
RevenueLoop(inputs, lo, hi, acc) ==
  IF lo > hi \/ ~Evaluated(acc) THEN acc
  ELSE IF lo = hi THEN RevenueStep(inputs, acc, lo)
  ELSE RevenueLoop(inputs, (lo + hi) \div 2 + 1, hi,
                   RevenueLoop(inputs, lo, (lo + hi) \div 2, acc))

calculateRevenue(inputs, periods) ==
  RevenueLoop(inputs, 1, periods, [revenue |-> << >>, currentRevenue |-> 100000]).revenue

calculateCostOfGoodsSold(inputs, revenue) ==
  [i \in 1..Len(revenue) |->
     JsAdd(JsScale(revenue[i], inputs.costStructure.costOfGoodsSold.percentage, 1000),
           inputs.costStructure.costOfGoodsSold.fixedCosts)]

calculateOperatingExpense(expenseConfig, revenue) ==
  [i \in 1..Len(revenue) |->
     JsAdd(JsScale(revenue[i], expenseConfig.percentage, 1000),
           expenseConfig.fixedCosts)]

\* acc.out[i] = acc.current, then acc.current += values[i]
RECURSIVE CashBalanceLoop(_, _, _, _)
CashBalanceLoop(values, lo, hi, acc) ==
  IF lo > hi \/ ~Evaluated(acc) THEN acc
  ELSE IF lo = hi
  THEN [out |-> Append(acc.out, acc.current),
        current |-> JsAdd(acc.current, values[lo])]
  ELSE CashBalanceLoop(values, (lo + hi) \div 2 + 1, hi,
                       CashBalanceLoop(values, lo, (lo + hi) \div 2, acc))

\* cash[i] is written before period i's net income is added
calculateCashBalance(incomeStatement, periods) ==
  CashBalanceLoop(incomeStatement.netIncome, 1, periods,
                  [out |-> << >>, current |-> 50000]).out

\* acc.current += values[i], then acc.out[i] = acc.current
RECURSIVE RunningTotalLoop(_, _, _, _)
RunningTotalLoop(values, lo, hi, acc) ==
  IF lo > hi \/ ~Evaluated(acc) THEN acc
  ELSE IF lo = hi
  THEN [out |-> Append(acc.out, JsAdd(acc.current, values[lo])),
        current |-> JsAdd(acc.current, values[lo])]
  ELSE RunningTotalLoop(values, (lo + hi) \div 2 + 1, hi,
                        RunningTotalLoop(values, lo, (lo + hi) \div 2, acc))

RunningTotal(values, start) ==
  RunningTotalLoop(values, 1, Len(values), [out |-> << >>, current |-> start]).out

calculateRetainedEarnings(incomeStatement) ==
  RunningTotal(incomeStatement.netIncome, 0)

\* endingCash[i] is written after period i's net cash flow is added
calculateEndingCash(netCashFlow) ==
  RunningTotal(netCashFlow, 50000)

(***************************************************************************)
(* FinancialModelingEngine: the three statements                           *)
(***************************************************************************)
generateIncomeStatement(inputs, periods, depreciationSchedule, debtSchedule) ==
  LET revenue == calculateRevenue(inputs, periods)
      costOfGoodsSold == calculateCostOfGoodsSold(inputs, revenue)
      grossProfit == [i \in 1..periods |-> JsSub(revenue[i], costOfGoodsSold[i])]
      sm == calculateOperatingExpense(inputs.operatingExpenses.salesAndMarketing, revenue)
      rd == calculateOperatingExpense(inputs.operatingExpenses.researchAndDevelopment, revenue)
      ga == calculateOperatingExpense(inputs.operatingExpenses.generalAndAdministrative, revenue)
      totalOperatingExpenses == [i \in 1..periods |-> JsAdd(JsAdd(sm[i], rd[i]), ga[i])]
      operatingIncome == [i \in 1..periods |-> JsSub(grossProfit[i], totalOperatingExpenses[i])]
      interestExpense == debtSchedule.interestPayments
      taxes == [i \in 1..periods |->
                  JsScale(JsMax0(JsSub(operatingIncome[i], interestExpense[i])),
                          inputs.taxRate, 1000)]
      netIncome == [i \in 1..periods |->
                      JsSub(JsSub(operatingIncome[i], interestExpense[i]), taxes[i])]
  IN  [periods |-> periods,
       revenue |-> revenue,
       costOfGoodsSold |-> costOfGoodsSold,
       grossProfit |-> grossProfit,
       operatingExpenses |-> [salesAndMarketing |-> sm,
                              researchAndDevelopment |-> rd,
                              generalAndAdministrative |-> ga],
       operatingIncome |-> operatingIncome,
       interestExpense |-> interestExpense,
       taxes |-> taxes,
       netIncome |-> netIncome]

\* The balance sheet is built from the income statement and the schedules;
\* the cash flow statement does not exist yet when it is built.
generateBalanceSheet(inputs, periods, incomeStatement, workingCapitalSchedule, depreciationSchedule, debtSchedule) ==
  LET cash == calculateCashBalance(incomeStatement, periods)
      accountsReceivable == workingCapitalSchedule.accountsReceivable
      inventory == workingCapitalSchedule.inventory
      fixedAssets == depreciationSchedule.endingBalance
      accumulatedDepreciation == RunningTotal(depreciationSchedule.depreciation, 0)
      totalAssets == [i \in 1..periods |->
                        JsSub(JsAdd(JsAdd(JsAdd(cash[i], accountsReceivable[i]),
                                          inventory[i]), fixedAssets[i]),
                              accumulatedDepreciation[i])]
      accountsPayable == workingCapitalSchedule.accountsPayable
      debt == debtSchedule.endingBalance
      totalLiabilities == [i \in 1..periods |-> JsAdd(accountsPayable[i], debt[i])]
      commonStock == Fill(periods, (inputs.debtStructure.initialDebt * 3) \div 10)
      retainedEarnings == calculateRetainedEarnings(incomeStatement)
      totalEquity == [i \in 1..periods |-> JsAdd(commonStock[i], retainedEarnings[i])]
  IN  [periods |-> periods,
       assets |-> [cash |-> cash,
                   accountsReceivable |-> accountsReceivable,
                   inventory |-> inventory,
                   fixedAssets |-> fixedAssets,
                   accumulatedDepreciation |-> accumulatedDepreciation,
                   totalAssets |-> totalAssets],
       liabilities |-> [accountsPayable |-> accountsPayable,
                        debt |-> debt,
                        totalLiabilities |-> totalLiabilities],
       equity |-> [commonStock |-> commonStock,
                   retainedEarnings |-> retainedEarnings,
                   totalEquity |-> totalEquity]]

generateCashFlowStatement(inputs, periods, incomeStatement, balanceSheet, depreciationSchedule, debtSchedule, workingCapitalSchedule) ==
  LET operatingCashFlow ==
        [i \in 1..periods |->
           JsSub(JsAdd(incomeStatement.netIncome[i], depreciationSchedule.depreciation[i]),
                 workingCapitalSchedule.changeInWorkingCapital[i])]
      investingCashFlow == [i \in 1..periods |-> 0 - depreciationSchedule.additions[i]]
      financingCashFlow ==
        [i \in 1..periods |->
           JsSub(JsSub(debtSchedule.newDebt[i], debtSchedule.principalPayments[i]),
                 debtSchedule.interestPayments[i])]
      netCashFlow == [i \in 1..periods |->
                        JsAdd(JsAdd(operatingCashFlow[i], investingCashFlow[i]),
                              financingCashFlow[i])]
  IN  [periods |-> periods,
       operatingCashFlow |-> operatingCashFlow,
       investingCashFlow |-> investingCashFlow,
       financingCashFlow |-> financingCashFlow,
       netCashFlow |-> netCashFlow,
       endingCash |-> calculateEndingCash(netCashFlow)]

(***************************************************************************)
(* TemplateEngine: the template registry                                   *)
(***************************************************************************)
\* The value of a property that is absent (undefined).
Undefined == 1 - Inf

\* An input definition; every registered one is required.  default is
\* Undefined when the definition gives none; validation is its list of rules.
InputDef(id, default, validation) ==
  [id |-> id, required |-> TRUE, default |-> default, validation |-> validation]

\* { type: 'range', condition: 'min,max' }, min and max in thousandths
Range(min, max) == << [type |-> "range", min |-> min, max |-> max] >>

\* A calculation step; includes is the set of the keywords evaluateFormula
\* looks for that the step's formula text contains.
Step(id, includes) == [id |-> id, includes |-> includes]

Template(id, inputs, schedules, validation) ==
  [id |-> id, businessTypes |-> {id},
   schema |-> [inputs |-> inputs, schedules |-> schedules],
   validation |-> validation]

saasTemplate ==
  Template("saas",
    << InputDef("initial_mrr", Undefined, << >>),
       InputDef("revenue_growth_rate", 50, Range(0, 500)),
       InputDef("churn_rate", 20, Range(0, 200)),
       InputDef("gross_margin", 800, Range(0, 1000)),
       InputDef("sales_marketing_budget", 300, Range(0, 1000)),
       InputDef("research_development_budget", 150, Range(0, 1000)),
       InputDef("tax_rate", 250, Range(0, 500)) >>,
    << [id |-> "revenue_schedule",
        calculations |-> << Step("monthly_revenue", {"revenue_growth"}) >>] >>,
    << [type |-> "range", field |-> "revenue_growth_rate"] >>)

ecommerceTemplate ==
  Template("ecommerce",
    << InputDef("starting_customers", Undefined, << >>),
       InputDef("new_customers_per_month", 10, << >>),
       InputDef("churn_rate", 50, Range(0, 300)),
       InputDef("price_per_customer", Undefined, << >>),
       InputDef("cogs_per_customer", Undefined, << >>),
       InputDef("opex_per_month", 5000, << >>),
       InputDef("initial_cash", 50000, << >>) >>,
    << [id |-> "customer_schedule",
        calculations |-> << Step("total_customers", {}), Step("revenue", {}) >>] >>,
    << >>)

marketplaceTemplate ==
  Template("marketplace",
    << InputDef("gmv", Undefined, << >>),
       InputDef("take_rate", 150, Range(0, 500)),
       InputDef("transaction_volume", Undefined, << >>),
       InputDef("average_order_value", Undefined, << >>),
       InputDef("customer_acquisition_cost", Undefined, << >>),
       InputDef("operating_expenses", 10000, << >>) >>,
    << >>, << >>)

servicesTemplate ==
  Template("services",
    << InputDef("billable_hours", Undefined, << >>),
       InputDef("hourly_rate", Undefined, << >>),
       InputDef("utilization_rate", 750, Range(0, 1000)),
       InputDef("team_size", Undefined, << >>),
       InputDef("average_salary", Undefined, << >>),
       InputDef("other_expenses", 5000, << >>) >>,
    << >>, << >>)

hardwareTemplate ==
  Template("hardware",
    << InputDef("units_sold", Undefined, << >>),
       InputDef("unit_price", Undefined, << >>),
       InputDef("unit_cost", Undefined, << >>),
       InputDef("inventory_turnover", 4, << >>),
       InputDef("manufacturing_capacity", Undefined, << >>),
       InputDef("fixed_costs", Undefined, << >>) >>,
    << >>, << >>)

manufacturingTemplate ==
  Template("manufacturing",
    << InputDef("production_capacity", Undefined, << >>),
       InputDef("capacity_utilization", 800, Range(0, 1000)),
       InputDef("unit_price", Undefined, << >>),
       InputDef("variable_cost_per_unit", Undefined, << >>),
       InputDef("fixed_manufacturing_costs", Undefined, << >>),
       InputDef("equipment_depreciation", 5000, << >>) >>,
    << >>, << >>)

realEstateTemplate ==
  Template("real_estate",
    << InputDef("property_value", Undefined, << >>),
       InputDef("rental_income", Undefined, << >>),
       InputDef("occupancy_rate", 950, Range(0, 1000)),
       InputDef("operating_expenses", Undefined, << >>),
       InputDef("mortgage_payment", Undefined, << >>),
       InputDef("property_taxes", Undefined, << >>),
       InputDef("appreciation_rate", 30, << >>) >>,
    << >>, << >>)

\* transaction_fee's default is 0.0025, below the thousandth; it is carried
\* rounded down.  No computation reads it.
financialTemplate ==
  Template("financial",
    << InputDef("assets_under_management", Undefined, << >>),
       InputDef("management_fee", 10, Range(0, 50)),
       InputDef("transaction_volume", Undefined, << >>),
       InputDef("transaction_fee", 2, << >>),
       InputDef("operating_expenses", Undefined, << >>),
       InputDef("regulatory_capital", Undefined, << >>) >>,
    << >>, << >>)

defaultTemplate ==
  Template("default",
    << InputDef("initial_revenue", Undefined, << >>),
       InputDef("revenue_growth_rate", 50, << >>) >>,
    << >>, << >>)

\* The map built by the constructor: this.templates.set(id, ...) nine times.
initializeTemplates ==
  [id \in {"saas", "ecommerce", "marketplace", "services", "hardware",
           "manufacturing", "real_estate", "financial", "default"} |->
     CASE id = "saas" -> saasTemplate
       [] id = "ecommerce" -> ecommerceTemplate
       [] id = "marketplace" -> marketplaceTemplate
       [] id = "services" -> servicesTemplate
       [] id = "hardware" -> hardwareTemplate
       [] id = "manufacturing" -> manufacturingTemplate
       [] id = "real_estate" -> realEstateTemplate
       [] id = "financial" -> financialTemplate
       [] OTHER -> defaultTemplate]

\* A variant of getTemplate that falls back to the first registered template.
getTemplate_first(registry, businessType) ==
  IF businessType \in DOMAIN registry THEN registry[businessType]
  ELSE registry["saas"]

\* this.templates.get(businessType) || this.templates.get('default')!
getTemplate(registry, businessType) ==
  IF businessType \in DOMAIN registry THEN registry[businessType]
  ELSE registry["default"]

(***************************************************************************)
(* TemplateEngine: input validation                                        *)
(***************************************************************************)
\* obj[key], Undefined when the key is absent
Get(obj, key) == IF key \in DOMAIN obj THEN obj[key] ELSE Undefined

\* x || d: undefined, 0 and NaN are falsy
OrElse(x, d) == IF x = Undefined \/ x = 0 \/ x = NaN THEN d ELSE x

\* x ?? d: only undefined (and null) give way to d
Coalesce(x, d) == IF x = Undefined THEN d ELSE x

\* A variant of evaluateValidationRule whose range excludes its two ends.
evaluateValidationRule_exclusive(rule, value) ==
  CASE rule.type = "range" ->
         value # Undefined /\ value # NaN /\ value > rule.min /\ value < rule.max
    [] rule.type = "required" -> value # Undefined
    [] OTHER -> TRUE

evaluateValidationRule(rule, value) ==
  CASE rule.type = "range" ->
         value # Undefined /\ value # NaN /\ value >= rule.min /\ value <= rule.max
    [] rule.type = "required" -> value # Undefined
    [] OTHER -> TRUE

\* The messages pushed for one input, in order.
ruleErrors(inputDef, value) ==
  LET failing == {k \in 1..Len(inputDef.validation) :
                    ~evaluateValidationRule(inputDef.validation[k], value)}
  IN  [k \in 1..Cardinality(failing) |-> "range"]

validateInput(inputDef, value) ==
  LET errors == (IF inputDef.required /\ value = Undefined
                 THEN << "required" >> ELSE << >>)
                \o ruleErrors(inputDef, value)
  IN  [isValid |-> Len(errors) = 0, errors |-> errors]

\* The loop of processInputs from definition k on: it throws at the first
\* definition whose value does not validate, naming that definition only.
RECURSIVE ProcessInputsLoop(_, _, _, _)
ProcessInputsLoop(template, inputs, k, processed) ==
  IF k > Len(template.schema.inputs)
  THEN [threw |-> FALSE, processed |-> processed, field |-> "", errors |-> << >>]
  ELSE LET inputDef == template.schema.inputs[k]
           value == Coalesce(Get(inputs, inputDef.id), inputDef.default)
           validationResult == validateInput(inputDef, value)
       IN  IF ~validationResult.isValid
           THEN [threw |-> TRUE, processed |-> << >>,
                 field |-> inputDef.id, errors |-> validationResult.errors]
           ELSE ProcessInputsLoop(template, inputs, k + 1,
                  [key \in DOMAIN processed \cup {inputDef.id} |->
                     IF key = inputDef.id THEN value ELSE processed[key]])

processInputs(template, inputs) == ProcessInputsLoop(template, inputs, 1, << >>)

(***************************************************************************)
(* TemplateEngine: schedules                                               *)
(***************************************************************************)
\* Math.pow(1 + growthRate / 12, i) for i = 0 .. periods - 1, scaled by 10^4
RECURSIVE GrowthFactorLoop(_, _, _, _)
GrowthFactorLoop(growthRate, lo, hi, acc) ==
  IF lo > hi \/ ~Evaluated(acc) THEN acc
  ELSE IF lo = hi
  THEN [out |-> Append(acc.out, acc.current),
        current |-> acc.current + (acc.current * growthRate) \div 12000]
  ELSE GrowthFactorLoop(growthRate, (lo + hi) \div 2 + 1, hi,
                        GrowthFactorLoop(growthRate, lo, (lo + hi) \div 2, acc))

GrowthFactors(growthRate, periods) ==
  GrowthFactorLoop(growthRate, 1, periods, [out |-> << >>, current |-> 10^4]).out

\* The branch taken depends only on which keyword the formula text contains.
evaluateFormula(step, inputs, schedules, periods) ==
  IF "revenue_growth" \in step.includes
  THEN GrowthFactors(OrElse(Get(inputs, "revenue_growth_rate"), 0), periods)
  ELSE IF "depreciation" \in step.includes
  THEN Fill(periods, JsScale(OrElse(Get(inputs, "initial_assets"), 0),
                             OrElse(Get(inputs, "depreciation_rate"), 100), 12000))
  ELSE IF "interest" \in step.includes
  THEN Fill(periods, JsScale(OrElse(Get(inputs, "initial_debt"), 0),
                             OrElse(Get(inputs, "interest_rate"), 50), 12000))
  ELSE Fill(periods, 0)

RECURSIVE CalculateScheduleLoop(_, _, _, _)
CalculateScheduleLoop(scheduleDef, inputs, k, schedule) ==
  IF k > Len(scheduleDef.calculations) THEN schedule
  ELSE LET step == scheduleDef.calculations[k]
           result == evaluateFormula(step, inputs, schedule, Periods)
       IN  CalculateScheduleLoop(scheduleDef, inputs, k + 1,
             [key \in DOMAIN schedule \cup {step.id} |->
                IF key = step.id THEN result ELSE schedule[key]])

calculateSchedule(scheduleDef, inputs) ==
  CalculateScheduleLoop(scheduleDef, inputs, 1, << >>)

\* schedules[scheduleDef.id] for every schedule definition of the template
calculateSchedules(template, inputs) ==
  LET defs == template.schema.schedules
  IN  [id \in {defs[k].id : k \in 1..Len(defs)} |->
         calculateSchedule(defs[CHOOSE k \in 1..Len(defs) : defs[k].id = id], inputs)]

\* schedules.<name>?.<field> || new Array(periods).fill(0)
ScheduleArray(schedules, name, field, periods) ==
  IF name \in DOMAIN schedules /\ field \in DOMAIN schedules[name]
  THEN schedules[name][field]
  ELSE Fill(periods, 0)

(***************************************************************************)
(* TemplateEngine: helper methods and statements                           *)
(***************************************************************************)
TE_RevenueStep(inputs, acc, i) ==
  LET growthRate == OrElse(Get(inputs, "revenue_growth_rate"), 0)
  IN  [revenue |-> Append(acc.revenue, acc.currentRevenue),
       currentRevenue |->
         JsAdd(acc.currentRevenue, JsScale(acc.currentRevenue, growthRate, 12000))]

RECURSIVE TE_RevenueLoop(_, _, _, _)
TE_RevenueLoop(inputs, lo, hi, acc) ==
  IF lo > hi \/ ~Evaluated(acc) THEN acc
  ELSE IF lo = hi THEN TE_RevenueStep(inputs, acc, lo)
  ELSE TE_RevenueLoop(inputs, (lo + hi) \div 2 + 1, hi,
                      TE_RevenueLoop(inputs, lo, (lo + hi) \div 2, acc))

TE_calculateRevenue(inputs, periods) ==
  TE_RevenueLoop(inputs, 1, periods,
    [revenue |-> << >>,
     currentRevenue |-> OrElse(Get(inputs, "initial_revenue"), 100000)]).revenue

TE_calculateCostOfGoodsSold(inputs, revenue) ==
  LET cogsPercentage == OrElse(Get(inputs, "cogs_percentage"), 600)
  IN  [i \in 1..Len(revenue) |-> JsScale(revenue[i], cogsPercentage, 1000)]

\* r * (budgetPercentage / 100)
TE_calculateOperatingExpense(budgetPercentage, revenue) ==
  [i \in 1..Len(revenue) |-> JsScale(revenue[i], budgetPercentage, 1000 * 100)]

TE_calculateCashBalance(incomeStatement, periods) ==
  CashBalanceLoop(incomeStatement.netIncome, 1, periods,
                  [out |-> << >>, current |-> 50000]).out

TE_calculateRetainedEarnings(incomeStatement) ==
  RunningTotal(incomeStatement.netIncome, 0)

\* A variant of calculateEndingCash whose opening cash reads the clock.
TE_calculateEndingCash_clock(netCashFlow) ==
  RunningTotal(netCashFlow, 50000 + clock)

\* A variant of calculateEndingCash that stops one period early.
TE_calculateEndingCash_short(netCashFlow) ==
  RunningTotal(SubSeq(netCashFlow, 1, Len(netCashFlow) - 1), 50000)

TE_calculateEndingCash(netCashFlow) ==
  RunningTotal(netCashFlow, 50000)

TE_generateIncomeStatement(template, inputs, schedules, periods) ==
  LET revenue == TE_calculateRevenue(inputs, periods)
      costOfGoodsSold == TE_calculateCostOfGoodsSold(inputs, revenue)
      grossProfit == [i \in 1..periods |-> JsSub(revenue[i], costOfGoodsSold[i])]
      sm == TE_calculateOperatingExpense(
              OrElse(Get(inputs, "sales_marketing_budget"), 0), revenue)
      rd == TE_calculateOperatingExpense(
              OrElse(Get(inputs, "research_development_budget"), 0), revenue)
      ga == TE_calculateOperatingExpense(
              OrElse(Get(inputs, "general_administrative_budget"), 0), revenue)
      totalOperatingExpenses == [i \in 1..periods |-> JsAdd(JsAdd(sm[i], rd[i]), ga[i])]
      operatingIncome == [i \in 1..periods |-> JsSub(grossProfit[i], totalOperatingExpenses[i])]
      interestExpense == ScheduleArray(schedules, "debt", "interestPayments", periods)
      taxes == [i \in 1..periods |->
                  JsScale(JsMax0(JsSub(operatingIncome[i], interestExpense[i])),
                          OrElse(Get(inputs, "tax_rate"), 250), 1000)]
      netIncome == [i \in 1..periods |->
                      JsSub(JsSub(operatingIncome[i], interestExpense[i]), taxes[i])]
  IN  [periods |-> periods,
       revenue |-> revenue,
       costOfGoodsSold |-> costOfGoodsSold,
       grossProfit |-> grossProfit,
       operatingExpenses |-> [salesAndMarketing |-> sm,
                              researchAndDevelopment |-> rd,
                              generalAndAdministrative |-> ga],
       operatingIncome |-> operatingIncome,
       interestExpense |-> interestExpense,
       taxes |-> taxes,
       netIncome |-> netIncome]

TE_generateBalanceSheet(template, inputs, schedules, incomeStatement, periods) ==
  LET cash == TE_calculateCashBalance(incomeStatement, periods)
      accountsReceivable == ScheduleArray(schedules, "workingCapital", "accountsReceivable", periods)
      inventory == ScheduleArray(schedules, "workingCapital", "inventory", periods)
      fixedAssets == ScheduleArray(schedules, "depreciation", "endingBalance", periods)
      accumulatedDepreciation ==
        ScheduleArray(schedules, "depreciation", "accumulatedDepreciation", periods)
      totalAssets == [i \in 1..periods |->
                        JsSub(JsAdd(JsAdd(JsAdd(cash[i], accountsReceivable[i]),
                                          inventory[i]), fixedAssets[i]),
                              accumulatedDepreciation[i])]
      accountsPayable == ScheduleArray(schedules, "workingCapital", "accountsPayable", periods)
      debt == ScheduleArray(schedules, "debt", "endingBalance", periods)
      totalLiabilities == [i \in 1..periods |-> JsAdd(accountsPayable[i], debt[i])]
      commonStock == Fill(periods, OrElse(Get(inputs, "initial_equity"), 100000))
      retainedEarnings == TE_calculateRetainedEarnings(incomeStatement)
      totalEquity == [i \in 1..periods |-> JsAdd(commonStock[i], retainedEarnings[i])]
  IN  [periods |-> periods,
       assets |-> [cash |-> cash,
                   accountsReceivable |-> accountsReceivable,
                   inventory |-> inventory,
                   fixedAssets |-> fixedAssets,
                   accumulatedDepreciation |-> accumulatedDepreciation,
                   totalAssets |-> totalAssets],
       liabilities |-> [accountsPayable |-> accountsPayable,
                        debt |-> debt,
                        totalLiabilities |-> totalLiabilities],
       equity |-> [commonStock |-> commonStock,
                   retainedEarnings |-> retainedEarnings,
                   totalEquity |-> totalEquity]]

TE_generateCashFlowStatement(template, inputs, schedules, incomeStatement, balanceSheet, periods) ==
  LET depreciation == ScheduleArray(schedules, "depreciation", "depreciation", periods)
      changeInWorkingCapital ==
        ScheduleArray(schedules, "workingCapital", "changeInWorkingCapital", periods)
      additions == ScheduleArray(schedules, "depreciation", "additions", periods)
      operatingCashFlow ==
        [i \in 1..periods |->
           JsSub(JsAdd(incomeStatement.netIncome[i], depreciation[i]),
                 changeInWorkingCapital[i])]
      investingCashFlow == [i \in 1..periods |-> 0 - additions[i]]
      financingCashFlow == ScheduleArray(schedules, "debt", "netCashFlow", periods)
      netCashFlow == [i \in 1..periods |->
                        JsAdd(JsAdd(operatingCashFlow[i], investingCashFlow[i]),
                              financingCashFlow[i])]
  IN  [periods |-> periods,
       operatingCashFlow |-> operatingCashFlow,
       investingCashFlow |-> investingCashFlow,
       financingCashFlow |-> financingCashFlow,
       netCashFlow |-> netCashFlow,
       endingCash |-> TE_calculateEndingCash(netCashFlow)]

TE_calculateScenarioResults(statements) ==
  [npv |-> 0, irr |-> 0, paybackPeriod |-> 0, keyMetrics |-> << >>]

TE_generateScenarios(template, statements) ==
  << [id |-> "base", type |-> "base", assumptions |-> << >>,
      results |-> TE_calculateScenarioResults(statements)] >>

TE_generateAuditChecks(template, statements) ==
  [k \in 1..Len(template.validation) |->
     [id |-> template.validation[k].field, status |-> "pass",
      value |-> 0, threshold |-> 0]]

(***************************************************************************)
(* FinancialModelingEngine: scenarios and audit checks                     *)
(*                                                                         *)
(* Ratios are carried in thousandths, like the rates.                      *)
(***************************************************************************)
\* values.reduce((sum, v) => sum + v, 0)
RECURSIVE SumRange(_, _, _)
SumRange(values, lo, hi) ==
  IF lo > hi THEN 0
  ELSE IF lo = hi THEN values[lo]
  ELSE JsAdd(SumRange(values, lo, (lo + hi) \div 2),
             SumRange(values, (lo + hi) \div 2 + 1, hi))

Sum(values, n) == SumRange(values, 1, n)

\* cf / Math.pow(1 + discountRate / 12, i), the power scaled by 10^6
Discounted(cf, pow) ==
  IF cf = NaN THEN NaN ELSE (cf * 1000) \div (pow \div 1000)

RECURSIVE NPVLoop(_, _, _, _, _)
NPVLoop(cashFlows, discountRate, lo, hi, acc) ==
  IF lo > hi \/ ~Evaluated(acc) THEN acc
  ELSE IF lo = hi
  THEN [npv |-> JsAdd(acc.npv, Discounted(cashFlows[lo], acc.pow)),
        pow |-> acc.pow + (acc.pow * discountRate) \div 12000]
  ELSE NPVLoop(cashFlows, discountRate, (lo + hi) \div 2 + 1, hi,
               NPVLoop(cashFlows, discountRate, lo, (lo + hi) \div 2, acc))

calculateNPV(cashFlows, discountRate) ==
  NPVLoop(cashFlows, discountRate, 1, Len(cashFlows), [npv |-> 0, pow |-> 10^6]).npv

\* a / b in units of 1/scale, for finite a and b > 0
Ratio(a, b, scale) == (a \div b) * scale + ((a % b) * scale) \div b

\* totalCF > 0 ? (totalCF / initialInvestment - 1) * 12 : 0, in thousandths
calculateIRR(cashFlows) ==
  LET totalCF == Sum(cashFlows, Len(cashFlows))
      first == cashFlows[1]
      initialInvestment == IF first = NaN THEN NaN
                           ELSE IF first < 0 THEN 0 - first ELSE first
  IN  IF totalCF = NaN \/ totalCF <= 0 THEN 0
      ELSE IF initialInvestment = NaN THEN NaN
      ELSE IF initialInvestment = 0 THEN Inf
      ELSE (Ratio(totalCF, initialInvestment, 1000) - 1000) * 12

\* acc.found is the period number returned, 0 while the loop is still running.
RECURSIVE PaybackLoop(_, _, _, _)
PaybackLoop(cashFlows, lo, hi, acc) ==
  IF lo > hi \/ acc.found > 0 THEN acc
  ELSE IF lo = hi
  THEN LET c == JsAdd(acc.cumulativeCF, cashFlows[lo])
       IN  [cumulativeCF |-> c, found |-> IF c # NaN /\ c >= 0 THEN lo ELSE 0]
  ELSE PaybackLoop(cashFlows, (lo + hi) \div 2 + 1, hi,
                   PaybackLoop(cashFlows, lo, (lo + hi) \div 2, acc))

\* The period number (index + 1) of the first cumulative cash flow >= 0,
\* cashFlows.length when there is none.
calculatePaybackPeriod(cashFlows) ==
  LET r == PaybackLoop(cashFlows, 1, Len(cashFlows), [cumulativeCF |-> 0, found |-> 0])
  IN  IF r.found > 0 THEN r.found ELSE Len(cashFlows)

\* gp / revenue in thousandths
MarginRatio(gp, revenue) ==
  IF gp = NaN \/ revenue = NaN THEN NaN
  ELSE IF revenue = 0 THEN (IF gp = 0 THEN NaN ELSE Inf)
  ELSE (gp * 1000) \div revenue

\* The sum of grossProfit[i] / revenue[i], divided by periods
averageGrossMargin(incomeStatement) ==
  LET ratios == [i \in 1..incomeStatement.periods |->
                   MarginRatio(incomeStatement.grossProfit[i], incomeStatement.revenue[i])]
      total == Sum(ratios, incomeStatement.periods)
  IN  IF IsFinite(total) THEN total \div incomeStatement.periods ELSE total

calculateScenarioResults(incomeStatement, balanceSheet, cashFlowStatement, discountRate) ==
  LET cashFlows == cashFlowStatement.netCashFlow
  IN  [npv |-> calculateNPV(cashFlows, discountRate),
       irr |-> calculateIRR(cashFlows),
       paybackPeriod |-> calculatePaybackPeriod(cashFlows),
       keyMetrics |->
         [totalRevenue |-> Sum(incomeStatement.revenue, incomeStatement.periods),
          totalNetIncome |-> Sum(incomeStatement.netIncome, incomeStatement.periods),
          avgGrossMargin |-> averageGrossMargin(incomeStatement),
          finalCash |-> cashFlowStatement.endingCash[Len(cashFlowStatement.endingCash)]]]

\* All three scenarios are computed from the same statements; only the
\* discount rate differs (x 0.9 and x 1.1).
generateScenarios(inputs, incomeStatement, balanceSheet, cashFlowStatement) ==
  << [id |-> "base", type |-> "base", assumptions |-> << >>,
      results |-> calculateScenarioResults(incomeStatement, balanceSheet,
                    cashFlowStatement, inputs.discountRate)],
     [id |-> "optimistic", type |-> "optimistic",
      assumptions |-> [revenueGrowth |-> 1200, marginImprovement |-> 1100],
      results |-> calculateScenarioResults(incomeStatement, balanceSheet,
                    cashFlowStatement, (inputs.discountRate * 9) \div 10)],
     [id |-> "pessimistic", type |-> "pessimistic",
      assumptions |-> [revenueGrowth |-> 800, marginDeterioration |-> 900],
      results |-> calculateScenarioResults(incomeStatement, balanceSheet,
                    cashFlowStatement, (inputs.discountRate * 11) \div 10)] >>

\* The growth rates (values[i] - values[i-1]) / values[i-1], in thousandths,
\* of the periods whose predecessor is > 0, summed; and their count.
RECURSIVE GrowthRates(_, _, _, _)
GrowthRates(values, lo, hi, acc) ==
  IF lo > hi \/ ~Evaluated(acc) THEN acc
  ELSE IF lo = hi
  THEN IF values[lo - 1] # NaN /\ values[lo - 1] > 0
       THEN [sum |-> IF values[lo] = NaN THEN NaN
                     ELSE JsAdd(acc.sum,
                                Ratio(values[lo] - values[lo - 1], values[lo - 1], 1000)),
             count |-> acc.count + 1]
       ELSE acc
  ELSE GrowthRates(values, (lo + hi) \div 2 + 1, hi,
                   GrowthRates(values, lo, (lo + hi) \div 2, acc))

calculateAverageGrowth(values) ==
  IF Len(values) < 2 THEN 0
  ELSE LET g == GrowthRates(values, 2, Len(values), [sum |-> 0, count |-> 0])
       IN  IF g.count = 0 THEN 0
           ELSE IF g.sum = NaN THEN NaN
           ELSE g.sum \div g.count

\* oi / Math.max(interest, 1), in hundredths
Coverage(oi, interest) ==
  IF oi = NaN \/ interest = NaN THEN NaN
  ELSE IF interest > 1 THEN Ratio(oi, interest, 100) ELSE oi * 100

generateAuditChecks(inputs, incomeStatement, balanceSheet, cashFlowStatement) ==
  LET avgRevenueGrowth == calculateAverageGrowth(incomeStatement.revenue)
      avgGrossMargin == averageGrossMargin(incomeStatement)
      negativeCashFlowPeriods ==
        Cardinality({i \in 1..Len(cashFlowStatement.netCashFlow) :
                       /\ cashFlowStatement.netCashFlow[i] # NaN
                       /\ cashFlowStatement.netCashFlow[i] < 0})
      coverage == [i \in 1..incomeStatement.periods |->
                     Coverage(incomeStatement.operatingIncome[i],
                              incomeStatement.interestExpense[i])]
      coverageSum == Sum(coverage, incomeStatement.periods)
      avgInterestCoverage == IF coverageSum = NaN THEN NaN
                             ELSE coverageSum \div incomeStatement.periods
  IN  << [id |-> "revenue_growth",
          status |-> IF avgRevenueGrowth # NaN /\ avgRevenueGrowth > 500 THEN "warning"
                     ELSE IF avgRevenueGrowth # NaN /\ avgRevenueGrowth < 0 THEN "fail"
                     ELSE "pass",
          value |-> avgRevenueGrowth],
         [id |-> "gross_margin",
          status |-> IF JsLe(avgGrossMargin, 99) THEN "fail"
                     ELSE IF JsLe(avgGrossMargin, 199) THEN "warning"
                     ELSE "pass",
          value |-> avgGrossMargin],
         [id |-> "cash_flow",
          status |-> IF negativeCashFlowPeriods > 12 THEN "fail"
                     ELSE IF negativeCashFlowPeriods > 6 THEN "warning"
                     ELSE "pass",
          value |-> negativeCashFlowPeriods],
         [id |-> "interest_coverage",
          status |-> IF JsLe(avgInterestCoverage, 149) THEN "fail"
                     ELSE IF JsLe(avgInterestCoverage, 199) THEN "warning"
                     ELSE "pass",
          value |-> avgInterestCoverage] >>

(***************************************************************************)
(* The calls the model makes                                               *)
(***************************************************************************)
\* The business types requests name; the last two are not registered.
BusinessTypes == {"saas", "ecommerce", "default", "invalid_type", "not_a_real_type"}

\* Raw input maps: rates in thousandths, amounts in dollars.
RawInputMaps ==
  { << >>,
    [initial_mrr |-> 50000],
    [initial_mrr |-> 50000, revenue_growth_rate |-> 50, churn_rate |-> 20,
     gross_margin |-> 800, sales_marketing_budget |-> 300,
     research_development_budget |-> 150, tax_rate |-> 250],
    [initial_mrr |-> 50000, revenue_growth_rate |-> 500, tax_rate |-> 0],
    [initial_mrr |-> 50000, revenue_growth_rate |-> 800],
    [initial_mrr |-> 50000, churn_rate |-> 300, tax_rate |-> 600],
    [initial_mrr |-> 50000, revenue_growth_rate |-> 500, tax_rate |-> 600],
    [revenue_growth_rate |-> 50],
    [revenue_growth_rate |-> 800],
    [starting_customers |-> 100],
    [starting_customers |-> 100, price_per_customer |-> 50, cogs_per_customer |-> 20,
     churn_rate |-> 300],
    [starting_customers |-> 100, price_per_customer |-> 50, cogs_per_customer |-> 20,
     initial_cash |-> 80000],
    [initial_revenue |-> 10000, revenue_growth_rate |-> 50],
    [initial_revenue |-> 2000000] }

FmeInputs(initialDebt, interestRate, debtMaturity) ==
  [revenueGrowth |-> << 50, 40, 30, 20, 10 >>,
   costStructure |-> [costOfGoodsSold |-> [percentage |-> 200, fixedCosts |-> 10000]],
   operatingExpenses |->
     [salesAndMarketing |-> [percentage |-> 300, fixedCosts |-> 50000],
      researchAndDevelopment |-> [percentage |-> 150, fixedCosts |-> 30000],
      generalAndAdministrative |-> [percentage |-> 100, fixedCosts |-> 20000]],
   workingCapital |-> [daysSalesOutstanding |-> 30, daysInventoryOutstanding |-> 0,
                       daysPayablesOutstanding |-> 15],
   capex |-> [annualCapex |-> 50000, depreciationRate |-> 100],
   debtStructure |-> [initialDebt |-> initialDebt, interestRate |-> interestRate,
                      debtMaturity |-> debtMaturity],
   taxRate |-> 250,
   discountRate |-> 150]

\* FinancialInputs: the first test's inputs, the debt structure varied.
FinancialInputsSet ==
  { FmeInputs(d, r, m) : d \in {0, 12000, 100000}, r \in {0, 50, 100}, m \in {1, 5, 7} }

\* One input map satisfying each of the other six registered templates; the
\* real_estate one is the README test's.
OtherTemplateInputs ==
  { << "marketplace", [gmv |-> 1000000, transaction_volume |-> 5000,
                       average_order_value |-> 200, customer_acquisition_cost |-> 50] >>,
    << "services", [billable_hours |-> 1600, hourly_rate |-> 150, team_size |-> 10,
                    average_salary |-> 90000] >>,
    << "hardware", [units_sold |-> 1000, unit_price |-> 500, unit_cost |-> 300,
                    manufacturing_capacity |-> 2000, fixed_costs |-> 50000] >>,
    << "manufacturing", [production_capacity |-> 10000, unit_price |-> 50,
                         variable_cost_per_unit |-> 30,
                         fixed_manufacturing_costs |-> 100000] >>,
    << "real_estate", [property_value |-> 2000000, rental_income |-> 15000,
                       occupancy_rate |-> 950, operating_expenses |-> 5000,
                       mortgage_payment |-> 8000, property_taxes |-> 24000,
                       appreciation_rate |-> 30] >>,
    << "financial", [assets_under_management |-> 1000000, transaction_volume |-> 5000,
                     operating_expenses |-> 20000, regulatory_capital |-> 100000] >> }

HttpEntries == {"generate", "excel", "csv"}

\* A call: an HTTP request to one of the three handlers, or a direct call of
\* applyTemplate(getTemplate(businessType), inputs) or generateFinancialModel.
Call(entry, method, businessType, hasInputs, inputs) ==
  [entry |-> entry, method |-> method, businessType |-> businessType,
   hasInputs |-> hasInputs, inputs |-> inputs]

NoCall == Call("none", "", "", FALSE, << >>)

Calls ==
  { Call(e, "POST", b, TRUE, i) :
      e \in HttpEntries \cup {"applyTemplate"}, b \in BusinessTypes, i \in RawInputMaps }
  \cup { Call(e, "GET", "saas", TRUE, << >>) : e \in HttpEntries }
  \cup { Call(e, "POST", "", TRUE, << >>) : e \in HttpEntries }
  \cup { Call(e, "POST", "saas", FALSE, << >>) : e \in HttpEntries }
  \cup { Call("generateFinancialModel", "", "", TRUE, i) : i \in FinancialInputsSet }
  \cup { Call(e, "POST", p[1], TRUE, p[2]) :
           e \in {"generate", "applyTemplate"}, p \in OtherTemplateInputs }

(***************************************************************************)
(* State                                                                   *)
(***************************************************************************)
VARIABLES
  templates,          \* TemplateEngine.instance.templates; empty before getInstance
  call,               \* the call being served
  pc,                 \* where the call is
  steps,              \* the steps of the call executed so far, in order
  processedInputs,    \* processInputs' result
  schedules,
  incomeStatement,
  balanceSheet,
  cashFlowStatement,
  model,              \* what applyTemplate / generateFinancialModel returned
  error,              \* the Error thrown by processInputs
  response,           \* the HTTP response sent
  ref,                \* an earlier call and its output, kept for comparison
  peer,               \* a second request, served concurrently with the first
  pure,               \* a direct call of one of the engine's metric functions
  csv                 \* the exports directory and the CSV export requests in flight

vars == << clock, templates, call, pc, steps, processedInputs, schedules,
           incomeStatement, balanceSheet, cashFlowStatement, model, error,
           response, ref, peer, pure, csv >>

NoError == [field |-> "", errors |-> << >>]
NoResponse == [status |-> 0, success |-> FALSE]
NoModel == [id |-> 0 - 1, financialInputsId |-> "", scenarios |-> << >>,
            auditChecks |-> << >>, createdAt |-> 0 - 1, updatedAt |-> 0 - 1]
NoRef == [call |-> NoCall, output |-> << >>, id |-> 0 - 1]
\* The CSV export requests the server can have in flight at once.
Exporters == {1, 2}

\* A CSV export request that has not arrived.
NoExport == [pc |-> "idle", call |-> NoCall, id |-> 0 - 1, status |-> 0, sent |-> 0]

\* The exports directory is empty and no CSV export request has arrived.
NoCsv == [dirs |-> << >>, requests |-> [r \in Exporters |-> NoExport]]
\* No metric function has been called directly.
NoPure == [op |-> "none", cashFlows |-> << >>, result |-> 0]
NoPeer == [call |-> NoCall, pc |-> "idle", startedAt |-> 0, runs |-> 0,
           processedInputs |-> << >>, schedules |-> << >>,
           incomeStatement |-> << >>, balanceSheet |-> << >>,
           cashFlowStatement |-> << >>]

IsFme == call.entry = "generateFinancialModel"
template == getTemplate(templates, call.businessType)

Init ==
  /\ clock = 0
  /\ templates = << >>
  /\ call = NoCall
  /\ pc = "idle"
  /\ steps = << >>
  /\ processedInputs = << >>
  /\ schedules = << >>
  /\ incomeStatement = << >>
  /\ balanceSheet = << >>
  /\ cashFlowStatement = << >>
  /\ model = NoModel
  /\ error = NoError
  /\ response = NoResponse
  /\ ref = NoRef
  /\ peer = NoPeer
  /\ pure = NoPure
  /\ csv = NoCsv

(***************************************************************************)
(* Actions                                                                 *)
(***************************************************************************)
\* A call arrives.  A handler answers 405 to a method other than POST and
\* 400 to a body without businessType or inputs; otherwise it takes the
\* TemplateEngine singleton (built on first use) and calls applyTemplate.
Request(c) ==
  /\ pc = "idle"
  /\ call' = c
  /\ IF c.entry \in HttpEntries /\ c.method # "POST"
     THEN /\ response' = [status |-> 405, success |-> FALSE]
          /\ pc' = "responded"
          /\ UNCHANGED templates
     ELSE IF c.entry \in HttpEntries /\ (c.businessType = "" \/ ~c.hasInputs)
     THEN /\ response' = [status |-> 400, success |-> FALSE]
          /\ pc' = "responded"
          /\ UNCHANGED templates
     ELSE IF c.entry = "generateFinancialModel"
     THEN /\ pc' = "calculateSchedules"
          /\ UNCHANGED << templates, response >>
     ELSE /\ templates' = IF DOMAIN templates = {} THEN initializeTemplates
                          ELSE templates
          /\ pc' = "processInputs"
          /\ UNCHANGED response
  /\ UNCHANGED << clock, steps, processedInputs, schedules, incomeStatement,
                  balanceSheet, cashFlowStatement, model, error, ref, peer, pure, csv >>

\* A variant of ProcessInputs that also stores each processed value as the
\* default of its input in the shared template.
ProcessInputs_writesBack ==
  /\ pc = "processInputs"
  /\ LET r == processInputs(template, call.inputs)
     IN  IF r.threw
         THEN /\ error' = [field |-> r.field, errors |-> r.errors]
              /\ pc' = "thrown"
              /\ UNCHANGED << processedInputs, templates >>
         ELSE /\ processedInputs' = r.processed
              /\ pc' = "calculateSchedules"
              /\ templates' =
                   [templates EXCEPT ![template.id].schema.inputs =
                      [k \in DOMAIN template.schema.inputs |->
                         [template.schema.inputs[k] EXCEPT
                            !.default = r.processed[template.schema.inputs[k].id]]]]
              /\ UNCHANGED error
  /\ steps' = Append(steps, "processInputs")
  /\ UNCHANGED << clock, call, schedules, incomeStatement, balanceSheet,
                  cashFlowStatement, model, response, ref, peer, pure, csv >>

\* applyTemplate's first statement.  A throw leaves applyTemplate at once.
ProcessInputs ==
  /\ pc = "processInputs"
  /\ LET r == processInputs(template, call.inputs)
     IN  IF r.threw
         THEN /\ error' = [field |-> r.field, errors |-> r.errors]
              /\ pc' = "thrown"
              /\ UNCHANGED processedInputs
         ELSE /\ processedInputs' = r.processed
              /\ pc' = "calculateSchedules"
              /\ UNCHANGED error
  /\ steps' = Append(steps, "processInputs")
  /\ UNCHANGED << clock, templates, call, schedules, incomeStatement, balanceSheet,
                  cashFlowStatement, model, response, ref, peer, pure, csv >>

CalculateSchedules ==
  /\ pc = "calculateSchedules"
  /\ schedules' =
       IF IsFme
       THEN [depreciation |-> generateDepreciationSchedule(call.inputs, Periods),
             debt |-> generateDebtSchedule(call.inputs, Periods),
             workingCapital |-> generateWorkingCapitalSchedule(call.inputs, Periods)]
       ELSE calculateSchedules(template, processedInputs)
  /\ pc' = "generateIncomeStatement"
  /\ steps' = Append(steps, "schedules")
  /\ UNCHANGED << clock, templates, call, processedInputs, incomeStatement,
                  balanceSheet, cashFlowStatement, model, error, response, ref, peer, pure, csv >>

GenerateIncomeStatement ==
  /\ pc = "generateIncomeStatement"
  /\ incomeStatement' =
       IF IsFme
       THEN generateIncomeStatement(call.inputs, Periods, schedules.depreciation,
                                    schedules.debt)
       ELSE TE_generateIncomeStatement(template, processedInputs, schedules, Periods)
  /\ pc' = "generateBalanceSheet"
  /\ steps' = Append(steps, "incomeStatement")
  /\ UNCHANGED << clock, templates, call, processedInputs, schedules, balanceSheet,
                  cashFlowStatement, model, error, response, ref, peer, pure, csv >>

GenerateBalanceSheet ==
  /\ pc = "generateBalanceSheet"
  /\ balanceSheet' =
       IF IsFme
       THEN generateBalanceSheet(call.inputs, Periods, incomeStatement,
                                 schedules.workingCapital, schedules.depreciation,
                                 schedules.debt)
       ELSE TE_generateBalanceSheet(template, processedInputs, schedules,
                                    incomeStatement, Periods)
  /\ pc' = "generateCashFlowStatement"
  /\ steps' = Append(steps, "balanceSheet")
  /\ UNCHANGED << clock, templates, call, processedInputs, schedules, incomeStatement,
                  cashFlowStatement, model, error, response, ref, peer, pure, csv >>

GenerateCashFlowStatement ==
  /\ pc = "generateCashFlowStatement"
  /\ cashFlowStatement' =
       IF IsFme
       THEN generateCashFlowStatement(call.inputs, Periods, incomeStatement,
                                      balanceSheet, schedules.depreciation,
                                      schedules.debt, schedules.workingCapital)
       ELSE TE_generateCashFlowStatement(template, processedInputs, schedules,
                                         incomeStatement, balanceSheet, Periods)
  /\ pc' = "assemble"
  /\ steps' = Append(steps, "cashFlowStatement")
  /\ UNCHANGED << clock, templates, call, processedInputs, schedules, incomeStatement,
                  balanceSheet, model, error, response, ref, peer, pure, csv >>

\* id: `model_${Date.now()}`
modelId(now) == now

\* The returned FinancialModel: the scenarios, the audit checks, the id and
\* the timestamps, beside the statements and schedules already computed.
Assemble ==
  /\ pc = "assemble"
  /\ model' =
       [id |-> modelId(clock),
        financialInputsId |-> IF IsFme THEN "inputs.id" ELSE "temp",
        scenarios |->
          IF IsFme
          THEN generateScenarios(call.inputs, incomeStatement, balanceSheet,
                                 cashFlowStatement)
          ELSE TE_generateScenarios(template, << >>),
        auditChecks |->
          IF IsFme
          THEN generateAuditChecks(call.inputs, incomeStatement, balanceSheet,
                                   cashFlowStatement)
          ELSE TE_generateAuditChecks(template, << >>),
        createdAt |-> clock,
        updatedAt |-> clock]
  /\ pc' = "returned"
  /\ steps' = Append(steps, "assemble")
  /\ UNCHANGED << clock, templates, call, processedInputs, schedules, incomeStatement,
                  balanceSheet, cashFlowStatement, error, response, ref, peer, pure, csv >>

\* The handler's answer: 200 with the model (or the exported file) when
\* applyTemplate returned, and the catch block's 500 when it threw.
Respond ==
  /\ call.entry \in HttpEntries
  /\ pc \in {"returned", "thrown"}
  /\ response' = IF pc = "returned" THEN [status |-> 200, success |-> TRUE]
                 ELSE [status |-> 500, success |-> FALSE]
  /\ pc' = "responded"
  /\ UNCHANGED << clock, templates, call, steps, processedInputs, schedules,
                  incomeStatement, balanceSheet, cashFlowStatement, model, error, ref, peer, pure, csv >>

\* The call is over; everything it created is dropped.
Finish ==
  /\ \/ pc = "responded"
     \/ pc \in {"returned", "thrown"} /\ call.entry \notin HttpEntries
  /\ call' = NoCall
  /\ pc' = "idle"
  /\ steps' = << >>
  /\ processedInputs' = << >>
  /\ schedules' = << >>
  /\ incomeStatement' = << >>
  /\ balanceSheet' = << >>
  /\ cashFlowStatement' = << >>
  /\ model' = NoModel
  /\ error' = NoError
  /\ response' = NoResponse
  /\ UNCHANGED << clock, templates, ref, peer, pure, csv >>

\* A millisecond passes.
Tick ==
  /\ clock < MaxClock
  /\ clock' = clock + 1
  /\ UNCHANGED << templates, call, pc, steps, processedInputs, schedules,
                  incomeStatement, balanceSheet, cashFlowStatement, model, error,
                  response, ref, peer, pure, csv >>

\* The numeric output of the call that has returned.
Output ==
  [schedules |-> schedules, incomeStatement |-> incomeStatement,
   balanceSheet |-> balanceSheet, cashFlowStatement |-> cashFlowStatement,
   scenarios |-> model.scenarios, auditChecks |-> model.auditChecks]

\* Keep the call that has just returned, and its output, for comparison
\* with a later one.
Remember ==
  /\ pc = "returned"
  /\ ref = NoRef
  /\ ref' = [call |-> call, output |-> Output, id |-> model.id]
  /\ UNCHANGED << clock, templates, call, pc, steps, processedInputs, schedules,
                  incomeStatement, balanceSheet, cashFlowStatement, model, error,
                  response, peer, pure, csv >>

Next ==
  \/ \E c \in Calls : Request(c)
  \/ ProcessInputs
  \/ CalculateSchedules
  \/ GenerateIncomeStatement
  \/ GenerateBalanceSheet
  \/ GenerateCashFlowStatement
  \/ Assemble
  \/ Respond
  \/ Finish
  \/ Tick

Spec == Init /\ [][Next]_vars

\* The calls made when one returned call is remembered for comparison with
\* the later ones: both engines, each with arguments that recur.
RememberCalls ==
  { Call(e, "POST", b, TRUE, i) :
      e \in {"generate", "applyTemplate"}, b \in {"saas", "not_a_real_type"},
      i \in { << >>, [initial_mrr |-> 50000],
              [initial_revenue |-> 10000, revenue_growth_rate |-> 50] } }
  \cup { Call("generateFinancialModel", "", "", TRUE, FmeInputs(100000, r, 5)) :
           r \in {0, 50} }

\* The same program, with one returned call remembered along the way.
NextRemember ==
  \/ \E c \in RememberCalls : Request(c)
  \/ ProcessInputs
  \/ CalculateSchedules
  \/ GenerateIncomeStatement
  \/ GenerateBalanceSheet
  \/ GenerateCashFlowStatement
  \/ Assemble
  \/ Respond
  \/ Finish
  \/ Tick
  \/ Remember

SpecRemember == Init /\ [][NextRemember]_vars

\* The requests made while two are served at once: the TemplateEngine
\* entries, with inputs that pass, inputs that throw and an unknown type.
ConcurrentCalls ==
  { Call("applyTemplate", "POST", "saas", TRUE, [initial_mrr |-> 50000]),
    Call("generate", "POST", "saas", TRUE,
         [initial_mrr |-> 50000, revenue_growth_rate |-> 500, tax_rate |-> 0]),
    Call("excel", "POST", "ecommerce", TRUE, << >>),
    Call("applyTemplate", "POST", "not_a_real_type", TRUE,
         [initial_revenue |-> 10000, revenue_growth_rate |-> 50]) }

\* A second request arrives while the first may be anywhere in its own
\* call.  It takes the same TemplateEngine singleton.
PeerRequest(c) ==
  /\ peer.pc = "idle"
  /\ peer.runs < MaxPeerRuns
  /\ templates' = IF DOMAIN templates = {} THEN initializeTemplates ELSE templates
  /\ peer' = [NoPeer EXCEPT !.call = c, !.pc = "processInputs",
                            !.startedAt = Len(steps), !.runs = peer.runs + 1]
  /\ UNCHANGED << clock, call, pc, steps, processedInputs, schedules, incomeStatement,
                  balanceSheet, cashFlowStatement, model, error, response, ref, pure, csv >>

\* The statement of applyTemplate the second request is at, on its own
\* locals and the shared registry.
PeerStep ==
  /\ peer.pc \notin {"idle", "returned", "thrown"}
  /\ LET t == getTemplate(templates, peer.call.businessType)
         r == processInputs(t, peer.call.inputs)
     IN  peer' =
           CASE peer.pc = "processInputs" ->
                  IF r.threw THEN [peer EXCEPT !.pc = "thrown"]
                  ELSE [peer EXCEPT !.pc = "calculateSchedules",
                                    !.processedInputs = r.processed]
             [] peer.pc = "calculateSchedules" ->
                  [peer EXCEPT !.pc = "generateIncomeStatement",
                               !.schedules = calculateSchedules(t, peer.processedInputs)]
             [] peer.pc = "generateIncomeStatement" ->
                  [peer EXCEPT !.pc = "generateBalanceSheet",
                               !.incomeStatement =
                                  TE_generateIncomeStatement(t, peer.processedInputs,
                                                             peer.schedules, Periods)]
             [] peer.pc = "generateBalanceSheet" ->
                  [peer EXCEPT !.pc = "generateCashFlowStatement",
                               !.balanceSheet =
                                  TE_generateBalanceSheet(t, peer.processedInputs,
                                                          peer.schedules,
                                                          peer.incomeStatement, Periods)]
             [] peer.pc = "generateCashFlowStatement" ->
                  [peer EXCEPT !.pc = "returned",
                               !.cashFlowStatement =
                                  TE_generateCashFlowStatement(t, peer.processedInputs,
                                                               peer.schedules,
                                                               peer.incomeStatement,
                                                               peer.balanceSheet, Periods)]
  /\ UNCHANGED << clock, templates, call, pc, steps, processedInputs, schedules,
                  incomeStatement, balanceSheet, cashFlowStatement, model, error,
                  response, ref, pure, csv >>

\* The second request is over; its locals are dropped.
PeerFinish ==
  /\ peer.pc \in {"returned", "thrown"}
  /\ peer' = [NoPeer EXCEPT !.runs = peer.runs]
  /\ UNCHANGED << clock, templates, call, pc, steps, processedInputs, schedules,
                  incomeStatement, balanceSheet, cashFlowStatement, model, error,
                  response, ref, pure, csv >>

\* Keep a call that returned before any second request was made.
RememberAlone ==
  /\ peer = NoPeer
  /\ Remember

\* Two requests in flight, their statements interleaved in every order.
NextConcurrent ==
  \/ \E c \in ConcurrentCalls : Request(c)
  \/ ProcessInputs
  \/ CalculateSchedules
  \/ GenerateIncomeStatement
  \/ GenerateBalanceSheet
  \/ GenerateCashFlowStatement
  \/ Assemble
  \/ Respond
  \/ Finish
  \/ RememberAlone
  \/ \E c \in ConcurrentCalls : PeerRequest(c)
  \/ PeerStep
  \/ PeerFinish

SpecConcurrent == Init /\ [][NextConcurrent]_vars

\* The net cash flow series the metric functions are called on directly:
\* every series of 2 to MaxLen periods over a few amounts of either sign.
CashFlowAmounts == {0 - 2000, 0 - 1000, 0, 1000, 2000}
CashFlowSeries == UNION { [1..n -> CashFlowAmounts] : n \in 2..MaxLen }

\* Before a direct call: no request in progress, and a series to call
\* calculatePaybackPeriod or calculateIRR on.
InitMetrics ==
  /\ clock = 0
  /\ templates = << >>
  /\ call = NoCall
  /\ pc = "idle"
  /\ steps = << >>
  /\ processedInputs = << >>
  /\ schedules = << >>
  /\ incomeStatement = << >>
  /\ balanceSheet = << >>
  /\ cashFlowStatement = << >>
  /\ model = NoModel
  /\ error = NoError
  /\ response = NoResponse
  /\ ref = NoRef
  /\ peer = NoPeer
  /\ pure \in { [NoPure EXCEPT !.cashFlows = cf] : cf \in CashFlowSeries }
  /\ csv = NoCsv

PaybackPeriod ==
  /\ pure.op = "none"
  /\ pure' = [pure EXCEPT !.op = "calculatePaybackPeriod",
                          !.result = calculatePaybackPeriod(pure.cashFlows)]
  /\ UNCHANGED << clock, templates, call, pc, steps, processedInputs, schedules,
                  incomeStatement, balanceSheet, cashFlowStatement, model, error,
                  response, ref, peer, csv >>

IRR ==
  /\ pure.op = "none"
  /\ pure' = [pure EXCEPT !.op = "calculateIRR",
                          !.result = calculateIRR(pure.cashFlows)]
  /\ UNCHANGED << clock, templates, call, pc, steps, processedInputs, schedules,
                  incomeStatement, balanceSheet, cashFlowStatement, model, error,
                  response, ref, peer, csv >>

NextMetrics ==
  \/ PaybackPeriod
  \/ IRR

SpecMetrics == InitMetrics /\ [][NextMetrics]_vars

(***************************************************************************)
(* The CSV export handler                                                  *)
(*                                                                         *)
(* csv.dirs maps the name of a directory under exports/ (a model id) to    *)
(* its files: csv is the request whose model the three CSV files hold, zip *)
(* the request whose CSV files the zip holds (0: no zip yet).              *)
(***************************************************************************)
\* The bodies of the CSV export requests: two that pass validation and one
\* whose processInputs throws.
CsvCalls ==
  { Call("csv", "POST", "saas", TRUE, [initial_mrr |-> 50000]),
    Call("csv", "POST", "saas", TRUE, [initial_mrr |-> 20000]),
    Call("csv", "POST", "ecommerce", TRUE, << >>) }

\* path.join(process.cwd(), 'exports', financialModel.id)
outputDir(id) == id

\* exportToCSV: the directory is made unless it exists, and the three CSV
\* files are written over whatever is there.
exportToCSV(dirs, dir, r) ==
  [d \in DOMAIN dirs \cup {dir} |->
     IF d = dir
     THEN [csv |-> r, zip |-> IF dir \in DOMAIN dirs THEN dirs[dir].zip ELSE 0]
     ELSE dirs[d]]

\* The handler up to archive.finalize(), which runs without interruption:
\* applyTemplate, then exportToCSV into exports/<model id>.  A throw of
\* applyTemplate is answered 500.
CsvRequest(r, c) ==
  /\ csv.requests[r].pc = "idle"
  /\ templates' = IF DOMAIN templates = {} THEN initializeTemplates ELSE templates
  /\ LET t == getTemplate(templates', c.businessType)
         id == modelId(clock)
     IN  IF processInputs(t, c.inputs).threw
         THEN csv' = [csv EXCEPT !.requests[r] =
                        [NoExport EXCEPT !.pc = "responded", !.call = c, !.status = 500]]
         ELSE csv' = [dirs |-> exportToCSV(csv.dirs, outputDir(id), r),
                      requests |-> [csv.requests EXCEPT ![r] =
                                      [NoExport EXCEPT !.pc = "archive", !.call = c,
                                                       !.id = id]]]
  /\ UNCHANGED << clock, call, pc, steps, processedInputs, schedules, incomeStatement,
                  balanceSheet, cashFlowStatement, model, error, response, ref, peer,
                  pure >>

\* The archiver reads the CSV files named in csvFiles and writes them into
\* financial_model_csv.zip in the same directory.  Without the directory
\* the write stream fails, and nothing handles that error.
CsvArchive(r) ==
  /\ csv.requests[r].pc = "archive"
  /\ LET dir == outputDir(csv.requests[r].id)
     IN  IF dir \notin DOMAIN csv.dirs
         THEN csv' = [csv EXCEPT !.requests[r].pc = "crashed"]
         ELSE csv' = [csv EXCEPT !.dirs[dir].zip = csv.dirs[dir].csv,
                                 !.requests[r].pc = "close"]
  /\ UNCHANGED << clock, templates, call, pc, steps, processedInputs, schedules,
                  incomeStatement, balanceSheet, cashFlowStatement, model, error,
                  response, ref, peer, pure >>

\* output.on('close'): the zip is read and sent, then the CSV files, the
\* zip and the directory are removed.  readFileSync throws when the zip is
\* gone.
CsvClose(r) ==
  /\ csv.requests[r].pc = "close"
  /\ LET dir == outputDir(csv.requests[r].id)
     IN  IF dir \notin DOMAIN csv.dirs \/ csv.dirs[dir].zip = 0
         THEN csv' = [csv EXCEPT !.requests[r].pc = "crashed"]
         ELSE csv' = [dirs |-> [d \in DOMAIN csv.dirs \ {dir} |-> csv.dirs[d]],
                      requests |-> [csv.requests EXCEPT
                                      ![r].pc = "responded", ![r].status = 200,
                                      ![r].sent = csv.dirs[dir].zip]]
  /\ UNCHANGED << clock, templates, call, pc, steps, processedInputs, schedules,
                  incomeStatement, balanceSheet, cashFlowStatement, model, error,
                  response, ref, peer, pure >>

\* CSV export requests served concurrently, as the clock runs.
NextCsv ==
  \/ \E r \in Exporters, c \in CsvCalls : CsvRequest(r, c)
  \/ \E r \in Exporters : CsvArchive(r)
  \/ \E r \in Exporters : CsvClose(r)
  \/ Tick

SpecCsv == Init /\ [][NextCsv]_vars

(***************************************************************************)
(* Properties                                                              *)
(***************************************************************************)
\* The step has been executed by the call being served.
Done(step) == \E k \in 1..Len(steps) : steps[k] = step

IsTemplateCall == call.entry \in HttpEntries \cup {"applyTemplate"}

\* An input definition is violated by a raw input map: the input is required
\* but missing and has no default, or its value lies outside the [min, max]
\* of one of its range rules.
Violates(inputDef, raw) ==
  LET value == IF inputDef.id \in DOMAIN raw THEN raw[inputDef.id]
               ELSE inputDef.default
  IN  \/ inputDef.required /\ value = Undefined
      \/ \E k \in 1..Len(inputDef.validation) :
           /\ inputDef.validation[k].type = "range"
           /\ (value < inputDef.validation[k].min \/ value > inputDef.validation[k].max)

ViolatingFields(t, raw) ==
  {t.schema.inputs[k].id :
     k \in {j \in 1..Len(t.schema.inputs) : Violates(t.schema.inputs[j], raw)}}

\* C1: accounting identity.  In every generated model and every period t,
\* |totalAssets[t] - (totalLiabilities[t] + totalEquity[t])| < Epsilon.
C1_AccountingIdentity ==
  Done("assemble") =>
    \A t \in 1..Periods :
      JsNear(balanceSheet.assets.totalAssets[t],
             JsAdd(balanceSheet.liabilities.totalLiabilities[t],
                   balanceSheet.equity.totalEquity[t]),
             Epsilon)

\* C2: in every generated model and every period t, the balance sheet's
\* cash[t] equals the cash flow statement's endingCash[t] (within Epsilon).
C2_CashTiesToCashFlow ==
  Done("assemble") =>
    \A t \in 1..Periods :
      JsNear(balanceSheet.assets.cash[t], cashFlowStatement.endingCash[t], Epsilon)

\* C3: cash continuity.  In every generated cash flow statement,
\* endingCash[t] = endingCash[t-1] + netCashFlow[t] for all t > 0.
C3_CashContinuity ==
  Done("cashFlowStatement") =>
    \A t \in 2..Periods :
      JsEq(cashFlowStatement.endingCash[t],
           JsAdd(cashFlowStatement.endingCash[t - 1], cashFlowStatement.netCashFlow[t]))

\* C4: validation completeness.  When validation fails, the failure reported
\* names every field of the raw input map that violates the template.
C4_ValidationComplete ==
  pc = "thrown" => ViolatingFields(template, call.inputs) \subseteq {error.field}

\* C5: fail fast.  When some input violates the template, applyTemplate
\* fails with processInputs as its only step: no schedule, no statement and
\* no model exist, and no success is answered.  When none does, values at
\* the min or the max of a range included, processInputs does not fail.
C5_FailFast ==
  (IsTemplateCall /\ Done("processInputs")) =>
    IF ViolatingFields(template, call.inputs) # {}
    THEN /\ pc \in {"thrown", "responded"}
         /\ steps = << "processInputs" >>
         /\ error # NoError
         /\ schedules = << >>
         /\ incomeStatement = << >>
         /\ balanceSheet = << >>
         /\ cashFlowStatement = << >>
         /\ model = NoModel
         /\ ~response.success
    ELSE pc # "thrown" /\ error = NoError

\* A saas call whose revenue_growth_rate is exactly the max of its range
\* and whose tax_rate is beyond its own: the failure names tax_rate, so
\* the value at the max was accepted, and nothing has been computed.
C5_Witness ==
  /\ pc = "thrown"
  /\ template.id = "saas"
  /\ Get(call.inputs, "revenue_growth_rate") = 500
  /\ Get(call.inputs, "tax_rate") = 600
  /\ error.field = "tax_rate"
  /\ steps = << "processInputs" >>

\* C6: a business type that is not registered resolves to the template
\* whose id is 'default'; with inputs satisfying that template the call does
\* not fail, and what it generates has 60 periods.
C6_DefaultTemplate ==
  (IsTemplateCall /\ Done("processInputs") /\ call.businessType \notin DOMAIN templates) =>
    /\ template.id = "default"
    /\ ViolatingFields(templates["default"], call.inputs) = {} =>
         /\ pc # "thrown"
         /\ Done("incomeStatement") => incomeStatement.periods = 60
         /\ Done("balanceSheet") => balanceSheet.periods = 60
         /\ Done("cashFlowStatement") => cashFlowStatement.periods = 60

C6_Witness ==
  /\ pc = "returned"
  /\ call.businessType = "not_a_real_type"
  /\ call.inputs = [initial_revenue |-> 10000, revenue_growth_rate |-> 50]
  /\ template.id = "default"
  /\ Len(incomeStatement.revenue) = 60

\* C7: a handler answers a POST carrying a businessType and an inputs
\* object that fails template validation with status 400 and success=false.
C7_ValidationFailure400 ==
  (pc = "responded" /\ call.entry \in HttpEntries /\ error # NoError) =>
    (response.status = 400 /\ ~response.success)

\* Two calls have the same arguments: the same engine, the same business
\* type and the same raw inputs.
SameArguments(c, d) ==
  /\ c.entry # "none"
  /\ (c.entry = "generateFinancialModel") = (d.entry = "generateFinancialModel")
  /\ c.businessType = d.businessType
  /\ c.inputs = d.inputs

C9_DebtNonIncreasing ==
  (IsFme /\ Done("schedules")) =>
    \A t \in 1..(Periods - 1) :
      JsLe(schedules.debt.endingBalance[t + 1], schedules.debt.endingBalance[t])

\* C10: when debtMaturity * 12 <= periods, the debt's ending balance is 0
\* (within Epsilon) at index debtMaturity * 12 - 1 and at every later index.
\* Stated for a positive interest rate, where every balance is finite.
C10_DebtReachesZero ==
  (/\ IsFme
   /\ Done("schedules")
   /\ call.inputs.debtStructure.interestRate > 0
   /\ call.inputs.debtStructure.debtMaturity * 12 <= Periods) =>
    \A t \in (call.inputs.debtStructure.debtMaturity * 12)..Periods :
      JsNear(schedules.debt.endingBalance[t], 0, Epsilon)


\* The npv of the scenario of the returned model whose type is given.
ScenarioNpv(type) ==
  model.scenarios[CHOOSE k \in 1..Len(model.scenarios) :
                    model.scenarios[k].type = type].results.npv

\* C11: scenario ordering.  In every model generateFinancialModel returns,
\* optimistic.npv >= base.npv >= pessimistic.npv.  Stated for a positive
\* interest rate, where every cash flow is finite.
C11_ScenarioOrdering ==
  (IsFme /\ Done("assemble") /\ call.inputs.debtStructure.interestRate > 0) =>
    /\ JsLe(ScenarioNpv("base"), ScenarioNpv("optimistic"))
    /\ JsLe(ScenarioNpv("pessimistic"), ScenarioNpv("base"))


\* The call is served from the saas template and its income statement exists.
SaasStatement ==
  IsTemplateCall /\ Done("incomeStatement") /\ template.id = "saas"

\* C12: for the saas template, the first period's revenue is the supplied
\* initial_mrr (within Epsilon).
C12_SaasFirstRevenue ==
  SaasStatement => JsNear(incomeStatement.revenue[1], call.inputs.initial_mrr, Epsilon)

\* C13: for the saas template with revenue_growth_rate 0.05 and churn_rate
\* 0.02, revenue[11] > 1.3 * revenue[0].
C13_SaasRevenueCompounds ==
  (/\ SaasStatement
   /\ processedInputs.revenue_growth_rate = 50
   /\ processedInputs.churn_rate = 20) =>
    incomeStatement.revenue[12] * 10 > incomeStatement.revenue[1] * 13

\* C14: for the saas template, grossProfit[t] = revenue[t] - COGS[t] for
\* every t, and grossProfit[0] is revenue[0] * gross_margin (within Epsilon).
C14_SaasGrossMargin ==
  SaasStatement =>
    /\ \A t \in 1..Periods :
         JsEq(incomeStatement.grossProfit[t],
              JsSub(incomeStatement.revenue[t], incomeStatement.costOfGoodsSold[t]))
    /\ JsNear(incomeStatement.grossProfit[1],
              JsScale(incomeStatement.revenue[1], processedInputs.gross_margin, 1000),
              Epsilon)


\* taxes[t] = max(0, operatingIncome[t] - interestExpense[t]) * taxRate
TaxesAt(rate) ==
  \A t \in 1..Periods :
    incomeStatement.taxes[t] =
      JsScale(JsMax0(JsSub(incomeStatement.operatingIncome[t],
                           incomeStatement.interestExpense[t])), rate, 1000)

\* C15: the statements are computed from the supplied value of an input, a
\* supplied 0 included, and from the default only when the input is absent:
\* a supplied tax_rate of 0 gives taxes[t] = 0 for every t, an absent
\* tax_rate gives the default 0.25.
C15_SuppliedValueUsed ==
  SaasStatement =>
    /\ Get(call.inputs, "tax_rate") = 0 => \A t \in 1..Periods : incomeStatement.taxes[t] = 0
    /\ Get(call.inputs, "tax_rate") = Undefined => TaxesAt(250)
    /\ Get(call.inputs, "tax_rate") # Undefined => TaxesAt(call.inputs.tax_rate)


FiniteSeq(q) == \A i \in 1..Len(q) : IsFinite(q[i])

\* No line item of the three statements is NaN or Infinity.
StatementsFinite ==
  /\ \A q \in { incomeStatement.revenue, incomeStatement.costOfGoodsSold,
                incomeStatement.grossProfit, incomeStatement.operatingIncome,
                incomeStatement.interestExpense, incomeStatement.taxes,
                incomeStatement.netIncome } : FiniteSeq(q)
  /\ \A q \in { balanceSheet.assets.cash, balanceSheet.assets.totalAssets,
                balanceSheet.liabilities.debt, balanceSheet.liabilities.totalLiabilities,
                balanceSheet.equity.retainedEarnings, balanceSheet.equity.totalEquity } :
       FiniteSeq(q)
  /\ \A q \in { cashFlowStatement.operatingCashFlow, cashFlowStatement.investingCashFlow,
                cashFlowStatement.financingCashFlow, cashFlowStatement.netCashFlow,
                cashFlowStatement.endingCash } : FiniteSeq(q)

\* No value of the debt schedule, of a scenario's results or of an audit
\* check of generateFinancialModel is NaN or Infinity.
FmeOutputFinite ==
  /\ \A q \in { schedules.debt.beginningBalance, schedules.debt.interestPayments,
                schedules.debt.principalPayments, schedules.debt.endingBalance,
                schedules.depreciation.endingBalance } : FiniteSeq(q)
  /\ \A k \in 1..Len(model.scenarios) :
       /\ IsFinite(model.scenarios[k].results.npv)
       /\ IsFinite(model.scenarios[k].results.irr)
       /\ IsFinite(model.scenarios[k].results.keyMetrics.totalNetIncome)
       /\ IsFinite(model.scenarios[k].results.keyMetrics.avgGrossMargin)
       /\ IsFinite(model.scenarios[k].results.keyMetrics.finalCash)
  /\ \A k \in 1..Len(model.auditChecks) : IsFinite(model.auditChecks[k].value)

\* C16: in every generated model, no element of a statement, a schedule, a
\* scenario metric or an audit value is NaN or Infinity.
C16_NoNonFiniteOutput ==
  Done("assemble") => (StatementsFinite /\ (IsFme => FmeOutputFinite))


\* The call names a registered template and its raw inputs violate none of
\* that template's input definitions.
ValidTemplateCall ==
  /\ IsTemplateCall
  /\ call.businessType \in DOMAIN templates
  /\ ViolatingFields(templates[call.businessType], call.inputs) = {}

\* Every statement has periods = 60 and every line item has 60 elements;
\* the schedules of the template, a scenario and the audit checks exist.
CompleteModel ==
  /\ incomeStatement.periods = 60
  /\ balanceSheet.periods = 60
  /\ cashFlowStatement.periods = 60
  /\ \A q \in { incomeStatement.revenue, incomeStatement.costOfGoodsSold,
                incomeStatement.grossProfit,
                incomeStatement.operatingExpenses.salesAndMarketing,
                incomeStatement.operatingExpenses.researchAndDevelopment,
                incomeStatement.operatingExpenses.generalAndAdministrative,
                incomeStatement.operatingIncome, incomeStatement.interestExpense,
                incomeStatement.taxes, incomeStatement.netIncome } : Len(q) = 60
  /\ \A q \in { balanceSheet.assets.cash, balanceSheet.assets.accountsReceivable,
                balanceSheet.assets.inventory, balanceSheet.assets.fixedAssets,
                balanceSheet.assets.accumulatedDepreciation,
                balanceSheet.assets.totalAssets,
                balanceSheet.liabilities.accountsPayable, balanceSheet.liabilities.debt,
                balanceSheet.liabilities.totalLiabilities,
                balanceSheet.equity.commonStock, balanceSheet.equity.retainedEarnings,
                balanceSheet.equity.totalEquity } : Len(q) = 60
  /\ \A q \in { cashFlowStatement.operatingCashFlow, cashFlowStatement.investingCashFlow,
                cashFlowStatement.financingCashFlow, cashFlowStatement.netCashFlow } :
       Len(q) = 60
  /\ Len(cashFlowStatement.endingCash) = 60
  /\ \A k \in 1..Len(templates[call.businessType].schema.schedules) :
       templates[call.businessType].schema.schedules[k].id \in DOMAIN schedules
  /\ Len(model.scenarios) >= 1
  /\ model.id >= 0
  /\ Len(model.auditChecks) = Len(templates[call.businessType].validation)

\* A call with valid inputs never throws, is answered 200 by a handler, and
\* what it returns is complete.
ValidCallNeverFails ==
  (ValidTemplateCall /\ Done("processInputs")) =>
    /\ pc # "thrown"
    /\ error = NoError
    /\ pc = "responded" => response.status = 200
    /\ Done("assemble") => CompleteModel

\* The steps of a call, in the order applyTemplate runs them.
CallSteps ==
  << "processInputs", "schedules", "incomeStatement", "balanceSheet",
     "cashFlowStatement", "assemble" >>

\* A valid call that has not returned yet is at one of the six steps (each
\* step's action is enabled by pc alone), and the steps it has taken are a
\* proper prefix of the six: its next step can be taken, and at most six are.
ValidCallProgresses ==
  (ValidTemplateCall /\ pc \notin {"idle", "returned", "responded"}) =>
    /\ pc \in {"processInputs", "calculateSchedules", "generateIncomeStatement",
               "generateBalanceSheet", "generateCashFlowStatement", "assemble"}
    /\ Len(steps) < Len(CallSteps)
    /\ steps = SubSeq(CallSteps, 1, Len(steps))

\* C17: for every registered template and every input map that passes its
\* validation, generation does not throw, terminates (every step before the
\* return is followed by the next, and there are six), and returns a
\* complete model: three statements with periods = 60 and line items of
\* length 60, schedules, scenarios and audit checks.
C17_ValidInputCompletes ==
  ValidCallNeverFails /\ ValidCallProgresses

\* The README's real_estate request has been answered 200 with a complete
\* model.
C17_Witness ==
  /\ pc = "responded"
  /\ call.businessType = "real_estate"
  /\ ValidTemplateCall
  /\ response.status = 200
  /\ CompleteModel


\* Some period's balance sheet is off by Epsilon or more.
IdentityViolated ==
  \E t \in 1..Periods :
    ~JsNear(balanceSheet.assets.totalAssets[t],
            JsAdd(balanceSheet.liabilities.totalLiabilities[t],
                  balanceSheet.equity.totalEquity[t]),
            Epsilon)

\* C18: a violation of the balance-sheet identity is visible as a failing
\* audit check of the model.  (The claim asks for a check of the identity
\* itself; this asks only for some audit check with status 'fail'.)
C18_IdentityAudited ==
  (Done("assemble") /\ IdentityViolated) =>
    \E k \in 1..Len(model.auditChecks) : model.auditChecks[k].status = "fail"


\* C19: the cash series starts from the opening cash the request supplies:
\* endingCash[0] = initial_cash + netCashFlow[0] for a template that has the
\* input initial_cash.
C19_OpeningCashFromInput ==
  (IsTemplateCall /\ Done("cashFlowStatement") /\ "initial_cash" \in DOMAIN processedInputs) =>
    JsEq(cashFlowStatement.endingCash[1],
         JsAdd(processedInputs.initial_cash, cashFlowStatement.netCashFlow[1]))


\* The statements and schedules of an output.
StatementsOf(o) ==
  [schedules |-> o.schedules, incomeStatement |-> o.incomeStatement,
   balanceSheet |-> o.balanceSheet, cashFlowStatement |-> o.cashFlowStatement]

\* The registry is empty until the singleton is built, and from then on it
\* is what the constructor built.
RegistryReadOnly ==
  templates = << >> \/ templates = initializeTemplates

\* Either request, once its statements are complete, has the statements
\* that the same arguments produced in a call that ran alone.
StatementsAsAlone ==
  /\ (Done("cashFlowStatement") /\ SameArguments(ref.call, call)) =>
       StatementsOf(Output) = StatementsOf(ref.output)
  /\ (peer.pc = "returned" /\ SameArguments(ref.call, peer.call)) =>
       StatementsOf(peer) = StatementsOf(ref.output)

\* While a request is being served, no step of either request changes the
\* raw input map (or any other argument) its caller passed.
RawInputsUntouched ==
  /\ (call # NoCall /\ call' # NoCall) => call' = call
  /\ (peer.call # NoCall /\ peer'.call # NoCall) => peer'.call = peer.call

\* C20: under every interleaving of two requests, the template registry is
\* built once and never changed, no request's raw input map is changed, and
\* each request's statements equal those of the same request run alone.
C20_RequestIsolation ==
  [](RegistryReadOnly /\ StatementsAsAlone) /\ [][RawInputsUntouched]_vars

\* The first request has returned the statements of its solitary run while
\* a second request, with other inputs, arrived during it and is still in
\* the middle of its own statements.
C20_Witness ==
  /\ pc = "returned"
  /\ ref # NoRef
  /\ SameArguments(ref.call, call)
  /\ StatementsOf(Output) = StatementsOf(ref.output)
  /\ peer.startedAt \in 1..4
  /\ peer.pc = "generateBalanceSheet"
  /\ peer.call.inputs # call.inputs
  /\ peer.call.businessType = call.businessType

\* C21: every generated model carries a base, an optimistic and a
\* pessimistic scenario as its first three scenarios, in that order, and
\* the base scenario overrides no assumption.
C21_ThreeScenarios ==
  Done("assemble") =>
    /\ Len(model.scenarios) >= 3
    /\ model.scenarios[1].type = "base"
    /\ model.scenarios[2].type = "optimistic"
    /\ model.scenarios[3].type = "pessimistic"
    /\ model.scenarios[1].assumptions = << >>

\* The computation steps of the call so far, without processInputs and the
\* assembly of the returned model.
ComputationSteps ==
  SelectSeq(steps, LAMBDA s : s \in {"schedules", "incomeStatement",
                                     "cashFlowStatement", "balanceSheet"})

\* C22: within one call the computation steps happen in the order
\* schedules, income statement, cash flow statement, balance sheet; the
\* balance sheet is never computed before the cash flow statement.
C22_StepOrder ==
  ComputationSteps =
    SubSeq(<< "schedules", "incomeStatement", "cashFlowStatement", "balanceSheet" >>,
           1, Len(ComputationSteps))

\* The cumulative net cash flow through period t (counted from 1).
CumulativeThrough(cashFlows, t) == SumRange(cashFlows, 1, t)

\* The series recovers: some cumulative net cash flow is >= 0.
Recovers(cashFlows) ==
  \E t \in 1..Len(cashFlows) : CumulativeThrough(cashFlows, t) >= 0

\* What calculatePaybackPeriod returns for a series of the same length
\* that never recovers.
NotRecoveredSentinel(cashFlows) ==
  calculatePaybackPeriod([t \in 1..Len(cashFlows) |-> 0 - 1000])

\* C23: for a series that recovers, calculatePaybackPeriod returns the
\* first period (numbered from 1) whose cumulative net cash flow is >= 0,
\* and that is never the value it returns for a series that does not
\* recover.
C23_PaybackSentinel ==
  (pure.op = "calculatePaybackPeriod" /\ Recovers(pure.cashFlows)) =>
    /\ CumulativeThrough(pure.cashFlows, pure.result) >= 0
    /\ \A t \in 1..(pure.result - 1) : CumulativeThrough(pure.cashFlows, t) < 0
    /\ pure.result # NotRecoveredSentinel(pure.cashFlows)

\* The series has an outflow and an inflow.
ChangesSign(cashFlows) ==
  /\ \E t \in 1..Len(cashFlows) : cashFlows[t] < 0
  /\ \E t \in 1..Len(cashFlows) : cashFlows[t] > 0

\* C24: the IRR is a root of the NPV function of the same net cash flows,
\* NPV(netCF, irr) ~ 0, whenever the series changes sign.  Stated for the
\* rates between -200% and 200% a year.
C24_IrrIsRoot ==
  (pure.op = "calculateIRR" /\ ChangesSign(pure.cashFlows) /\ pure.result \in (0 - 2000)..2000) =>
    JsNear(calculateNPV(pure.cashFlows, pure.result), 0, Epsilon)

\* Period t (counted from 1) of the debt schedule d follows the rules of
\* an amortising loan with the monthly payment given.
DebtPeriodRules(d, inputs, payment, t) ==
  /\ JsEq(d.interestPayments[t],
          JsScale(d.beginningBalance[t], inputs.debtStructure.interestRate, 12000))
  /\ JsEq(d.principalPayments[t],
          JsMin(JsSub(payment, d.interestPayments[t]), d.beginningBalance[t]))
  /\ JsLe(0, d.principalPayments[t])
  /\ JsLe(d.principalPayments[t], d.beginningBalance[t])
  /\ JsEq(d.endingBalance[t], JsSub(d.beginningBalance[t], d.principalPayments[t]))
  /\ JsLe(0, d.endingBalance[t])

\* C25: every period of the debt schedule, the first included, has
\* interest = beginning * r, principal = min(payment - interest, beginning)
\* between 0 and beginning, and ending = beginning - principal >= 0.
\* Stated for a positive interest rate.
C25_DebtEveryPeriod ==
  (IsFme /\ Done("schedules") /\ call.inputs.debtStructure.interestRate > 0) =>
    \A t \in 1..Periods :
      DebtPeriodRules(schedules.debt, call.inputs, totalPayments(call.inputs), t)

\* ending[t] = beginning[t] + inflow[t] - outflow[t] in every period, and
\* every period after the first begins where the one before it ended.
Continuous(beginning, inflow, outflow, ending) ==
  /\ \A t \in 1..Periods :
       JsEq(ending[t], JsSub(JsAdd(beginning[t], inflow[t]), outflow[t]))
  /\ \A t \in 1..(Periods - 1) : JsEq(beginning[t + 1], ending[t])

DepreciationContinuous ==
  /\ Continuous(schedules.depreciation.beginningBalance, schedules.depreciation.additions,
                schedules.depreciation.depreciation, schedules.depreciation.endingBalance)
  /\ JsEq(schedules.depreciation.beginningBalance[1], 0)

DebtContinuous ==
  Continuous(schedules.debt.beginningBalance, schedules.debt.newDebt,
             schedules.debt.principalPayments, schedules.debt.endingBalance)

\* C26: schedule continuity.  In the depreciation and the debt schedule,
\* ending[t] = beginning[t] + inflow[t] - outflow[t] and
\* beginning[t+1] = ending[t] for every period, and the depreciation
\* schedule begins at 0.
C26_ScheduleContinuity ==
  (IsFme /\ Done("schedules")) => (DepreciationContinuous /\ DebtContinuous)

\* The totalRevenue metric of the scenario of the returned model whose type
\* is given.
ScenarioTotalRevenue(type) ==
  model.scenarios[CHOOSE k \in 1..Len(model.scenarios) :
                    model.scenarios[k].type = type].results.keyMetrics.totalRevenue

\* C27: the optimistic and the pessimistic scenario are computed from
\* statements regenerated under their own growth drivers: with positive
\* base growth, totalRevenue is greater in the optimistic scenario than in
\* the base one, and smaller in the pessimistic one.
C27_ScenariosRegenerated ==
  (IsFme /\ Done("assemble") /\ \A y \in 1..Len(call.inputs.revenueGrowth) : call.inputs.revenueGrowth[y] > 0) =>
    /\ ScenarioTotalRevenue("optimistic") > ScenarioTotalRevenue("base")
    /\ ScenarioTotalRevenue("pessimistic") < ScenarioTotalRevenue("base")

\* C28: two distinct requests yield models with distinct ids, also when
\* both are served within the same millisecond.  The remembered call and
\* the current one are distinct requests when their arguments differ.
C28_DistinctIds ==
  (Done("assemble") /\ ref # NoRef /\ ref.call # call) => model.id # ref.id

\* The directory of request r holds the CSV files of r's model, and its
\* zip, once written, holds them too.
OwnFilesIntact(r) ==
  LET dir == outputDir(csv.requests[r].id)
  IN  /\ dir \in DOMAIN csv.dirs
      /\ csv.dirs[dir].csv = r
      /\ csv.requests[r].pc = "close" => csv.dirs[dir].zip = r

\* C29: in the CSV export handler, between writing its files and cleaning
\* up, a request's directory, CSV files and zip are not overwritten or
\* deleted by another request, and the zip a request sends holds exactly
\* the files of its own model.
C29_CsvExportIsolation ==
  \A r \in Exporters :
    /\ csv.requests[r].pc \in {"archive", "close"} => OwnFilesIntact(r)
    /\ csv.requests[r].status = 200 => csv.requests[r].sent = r
    /\ csv.requests[r].pc # "crashed"

\* The net cash flow of period t (counted from 1) with the interest of the
\* period taken off once.
InterestOnceNetCashFlow(t) ==
  LET operating == JsSub(JsAdd(JsSub(incomeStatement.operatingIncome[t],
                                     incomeStatement.taxes[t]),
                               schedules.depreciation.depreciation[t]),
                         schedules.workingCapital.changeInWorkingCapital[t])
      financing == JsSub(JsSub(schedules.debt.newDebt[t],
                               schedules.debt.principalPayments[t]),
                         schedules.debt.interestPayments[t])
  IN  JsAdd(JsSub(operating, schedules.depreciation.additions[t]), financing)

\* C30: each period's interest reduces that period's net cash flow exactly
\* once: netCF[t] = (operatingIncome[t] - taxes[t] + depreciation[t] -
\* changeInWC[t]) - additions[t] + newDebt[t] - principal[t] - interest[t].
\* Stated for a positive interest rate.
C30_InterestCountedOnce ==
  (IsFme /\ Done("cashFlowStatement") /\ call.inputs.debtStructure.interestRate > 0) =>
    \A t \in 1..Periods :
      JsEq(cashFlowStatement.netCashFlow[t], InterestOnceNetCashFlow(t))

=============================================================================
